---- MODULE Spec2Model ----
(***************************************************************************)
(* Model of lalrpop's trace graph (lr1/trace/trace_graph/mod.rs): the      *)
(* TraceGraph store (add_node, add_edge, enumerate_paths_from) and the     *)
(* PathEnumerator (new, advance, find_next_trace, push_next_child,         *)
(* found_trace, symbols_and_cursor, Iterator::next).                       *)
(*                                                                         *)
(* A NodeIndex is the position of the node in the graph's node table and   *)
(* an edge index the position of the edge in its edge table; the tables    *)
(* are 1-based here (Rust's index i is position i + 1).  An Option is a    *)
(* sequence of length 0 (None) or 1 (Some).                                *)
(***************************************************************************)
EXTENDS Integers, Sequences, FiniteSets, TLC

VARIABLES
    nodes,      \* TraceGraph.graph: the node weights, by NodeIndex
    edges,      \* TraceGraph.graph: the edges, in insertion order
    indices,    \* TraceGraph.indices: TraceGraphNode -> NodeIndex
    en,         \* "none": no enumerator yet; "live"; "panicked"
    stack,      \* PathEnumerator.stack
    symbols,    \* PathEnumerator.symbols
    cursor,     \* PathEnumerator.cursor
    pc,         \* "idle" between public calls, "find_next_trace" inside the search
    call,       \* the public call being executed: its name and, for next(), `this`
    last,       \* the last completed public call: its name, argument and result
    target,     \* the item enumerate_paths_from was called with
    emitted,    \* the traces found_trace has assembled, in order, each with
                \* the stack it was assembled from
    returned,   \* the Some values Iterator::next has returned, in order
    other       \* a second PathEnumerator over the same graph: its fields,
                \* its position, its target and the traces it assembled

vars == <<nodes, edges, indices, en, stack, symbols, cursor, pc, call, last,
          target, emitted, returned, other>>

----------------------------------------------------------------------------
(* Values *)

Item(n) == [kind |-> "Item", name |-> n]

Nonterminal(n) == [kind |-> "Nonterminal", name |-> n]

SymbolSets(p, c, s) == [prefix |-> p, cursor |-> c, suffix |-> s]

\* SymbolSets::new(): the empty label of the bottom frame.
EmptySymbolSets == SymbolSets(<<>>, <<>>, <<>>)

None == <<>>

Some(v) == <<v>>

----------------------------------------------------------------------------
(* The inputs the callers are given *)

\* A bound on the number of edges a graph is built with.
MaxEdges == 4

ItemNames == {"X", "Y", "Z"}

X == Item("X")

Y == Item("Y")

Z == Item("Z")

N1 == Nonterminal("N1")

N2 == Nonterminal("N2")

LA == SymbolSets(<<"a">>, Some("N1"), <<"b">>)

L0 == EmptySymbolSets

L0c == SymbolSets(<<>>, Some("N1"), <<>>)

LC == SymbolSets(<<"b">>, None, <<"a">>)

\* The add_edge calls a caller may make: [from, to, labels].
EdgeInputs ==
    { <<X, N1, LA>>,  <<N1, Y, L0>>,      \* X -> N1 -> Y
      <<N1, X, LA>>,  <<Y, N1, L0>>,      \* Y -> N1 -> X
      <<Y, N1, L0c>>,                     \* a parallel edge, another cursor
      <<Z, N2, LC>>,                      \* an item behind two Nonterminals
      <<N1, N2, LC>>, <<N2, N1, L0>>,     \* a cycle N1 -> N2 -> N1
      <<Y, X, LC>> }                      \* an item-to-item edge

\* The add_node calls a caller may make outside add_edge.
NodeInputs == {X}

----------------------------------------------------------------------------
(* TraceGraph *)

\* add_node that inserts without looking the value up.
add_node_always_new(ns, idx, node) ==
    [nodes |-> Append(ns, node),
     indices |-> (node :> Len(ns) + 1) @@ idx,
     id |-> Len(ns) + 1]

\* indices.entry(node).or_insert_with(|| graph.add_node(node)): the graph's
\* tables after the call and the identifier returned.
add_node(ns, idx, node) ==
    IF node \in DOMAIN idx
    THEN [nodes |-> ns, indices |-> idx, id |-> idx[node]]
    ELSE [nodes |-> Append(ns, node),
          indices |-> idx @@ (node :> Len(ns) + 1),
          id |-> Len(ns) + 1]

\* The dedup test without the comparison of the labels.
HasEdge_any_label(es, from, to, labels) ==
    \E e \in 1..Len(es) : es[e].source = from /\ es[e].target = to

\* edges_directed(from, Outgoing).any(|(t, &l)| t == to && l == labels)
HasEdge(es, from, to, labels) ==
    \E e \in 1..Len(es) :
        es[e].source = from /\ es[e].target = to /\ es[e].weight = labels

\* The body of add_edge: both endpoints through add_node, then the edge
\* unless an equal one is there.
add_edge(ns, idx, es, from, to, labels) ==
    LET a == add_node(ns, idx, from)
        b == add_node(a.nodes, a.indices, to)
    IN  [nodes |-> b.nodes,
         indices |-> b.indices,
         edges |-> IF HasEdge(es, a.id, b.id, labels)
                   THEN es
                   ELSE Append(es, [source |-> a.id, target |-> b.id,
                                    weight |-> labels])]

Init ==
    /\ nodes = <<>>
    /\ edges = <<>>
    /\ indices = <<>>
    /\ en = "none"
    /\ stack = <<>>
    /\ symbols = <<>>
    /\ cursor = 0
    /\ pc = "idle"
    /\ call = [op |-> "none", this |-> None]
    /\ last = [op |-> "none", arg |-> None, ret |-> None]
    /\ target = None
    /\ emitted = <<>>
    /\ returned = <<>>
    /\ other = [en |-> "none", stack |-> <<>>, symbols |-> <<>>, cursor |-> 0,
                pc |-> "idle", target |-> <<>>, emitted |-> <<>>]

AddNode(node) ==
    /\ en = "none"
    /\ LET r == add_node(nodes, indices, node)
       IN  /\ nodes' = r.nodes
           /\ indices' = r.indices
           /\ last' = [op |-> "add_node", arg |-> Some(node), ret |-> Some(r.id)]
    /\ UNCHANGED <<edges, en, stack, symbols, cursor, pc, call, target, emitted>>

AddEdge(from, to, labels) ==
    /\ en = "none"
    /\ Len(edges) < MaxEdges
    /\ LET r == add_edge(nodes, indices, edges, from, to, labels)
       IN  /\ nodes' = r.nodes
           /\ indices' = r.indices
           /\ edges' = r.edges
           /\ last' = [op |-> "add_edge", arg |-> Some(<<from, to, labels>>),
                       ret |-> None]
    /\ UNCHANGED <<en, stack, symbols, cursor, pc, call, target, emitted>>

----------------------------------------------------------------------------
(* PathEnumerator *)

\* What an Edges iterator yields for an edge: the node at its other end and
\* its weight.
Yield(index, symbol_sets) == [index |-> index, symbol_sets |-> symbol_sets]

\* The edges into `index` among es[1..k], the most recently added first:
\* petgraph links a new edge at the head of its target's incoming list.
RECURSIVE EdgesInto(_, _, _)
EdgesInto(es, index, k) ==
    IF k = 0
    THEN <<>>
    ELSE (IF es[k].target = index THEN <<Yield(es[k].source, es[k].weight)>> ELSE <<>>)
         \o EdgesInto(es, index, k - 1)

\* The edges out of `index` among es[1..k], the most recently added first.
RECURSIVE EdgesOutOf(_, _, _)
EdgesOutOf(es, index, k) ==
    IF k = 0
    THEN <<>>
    ELSE (IF es[k].source = index THEN <<Yield(es[k].target, es[k].weight)>> ELSE <<>>)
         \o EdgesOutOf(es, index, k - 1)

\* A walk along the outgoing edges.
incoming_edges_outgoing(es, index) == EdgesOutOf(es, index, Len(es))

\* graph.edges_directed(index, Incoming): the iterator, as the sequence of
\* what it has yet to yield.
incoming_edges(es, index) == EdgesInto(es, index, Len(es))

EnumeratorState(index, symbol_sets, es) ==
    [index |-> index, symbol_sets |-> symbol_sets, edges |-> es]

Pop(stk) == SubSeq(stk, 1, Len(stk) - 1)

\* A cycle check against the top frame alone.
OnStack_top_only(stk, index) == stk # <<>> /\ stk[Len(stk)].index = index

\* self.stack.iter().any(|state| state.index == index)
OnStack(stk, index) == \E i \in 1..Len(stk) : stk[i].index = index

\* The prefixes taken without the rev(): the bottom frame's first.
RECURSIVE PrefixBlock_forward(_)
PrefixBlock_forward(stk) ==
    IF stk = <<>>
    THEN <<>>
    ELSE Head(stk).symbol_sets.prefix \o PrefixBlock_forward(Tail(stk))

\* stack.iter().rev().flat_map(|s| s.symbol_sets.prefix)
RECURSIVE PrefixBlock(_)
PrefixBlock(stk) ==
    IF stk = <<>>
    THEN <<>>
    ELSE stk[Len(stk)].symbol_sets.prefix \o PrefixBlock(Pop(stk))

\* stack.iter().flat_map(|s| s.symbol_sets.suffix)
RECURSIVE SuffixBlock(_)
SuffixBlock(stk) ==
    IF stk = <<>>
    THEN <<>>
    ELSE Head(stk).symbol_sets.suffix \o SuffixBlock(Tail(stk))

\* found_trace with the cursor taken after the cursor symbol is appended.
found_trace_cursor_late(stk) ==
    IF Len(stk) < 2
    THEN [panic |-> TRUE, symbols |-> <<>>, cursor |-> 0]
    ELSE [panic |-> FALSE,
          symbols |-> PrefixBlock(stk) \o stk[2].symbol_sets.cursor \o SuffixBlock(stk),
          cursor |-> Len(PrefixBlock(stk) \o stk[2].symbol_sets.cursor)]

\* found_trace with the cursor symbol read from the top frame's label.
found_trace_top_cursor(stk) ==
    IF Len(stk) < 2
    THEN [panic |-> TRUE, symbols |-> <<>>, cursor |-> 0]
    ELSE [panic |-> FALSE,
          symbols |-> PrefixBlock(stk) \o stk[Len(stk)].symbol_sets.cursor
                          \o SuffixBlock(stk),
          cursor |-> Len(PrefixBlock(stk))]

\* found_trace: the symbols vector and the cursor it assembles.  stack[1] is
\* the second frame; indexing past the end panics.
found_trace(stk) ==
    IF Len(stk) < 2
    THEN [panic |-> TRUE, symbols |-> <<>>, cursor |-> 0]
    ELSE [panic |-> FALSE,
          symbols |-> PrefixBlock(stk) \o stk[2].symbol_sets.cursor \o SuffixBlock(stk),
          cursor |-> Len(PrefixBlock(stk))]

\* push_next_child with the cycle check applied to Item nodes too.
push_next_child_check_items(ns, es, stk, index, symbol_sets) ==
    IF ns[index].kind = "Item" /\ ~OnStack(stk, index)
    THEN [stack |-> Append(stk, EnumeratorState(index, symbol_sets,
                                                incoming_edges(es, index))),
          found |-> TRUE]
    ELSE [stack |-> IF ~OnStack(stk, index)
                    THEN Append(stk, EnumeratorState(index, symbol_sets,
                                                     incoming_edges(es, index)))
                    ELSE stk,
          found |-> FALSE]

\* push_next_child that calls found_trace for a pushed Nonterminal too.
push_next_child_found_any(ns, es, stk, index, symbol_sets) ==
    IF ns[index].kind = "Item" \/ ~OnStack(stk, index)
    THEN [stack |-> Append(stk, EnumeratorState(index, symbol_sets,
                                                incoming_edges(es, index))),
          found |-> TRUE]
    ELSE [stack |-> stk, found |-> FALSE]

\* push_next_child: the stack afterwards and whether found_trace is called
\* (otherwise find_next_trace is).
push_next_child(ns, es, stk, index, symbol_sets) ==
    IF ns[index].kind = "Item"
    THEN [stack |-> Append(stk, EnumeratorState(index, symbol_sets,
                                                incoming_edges(es, index))),
          found |-> TRUE]
    ELSE [stack |-> IF ~OnStack(stk, index)
                    THEN Append(stk, EnumeratorState(index, symbol_sets,
                                                     incoming_edges(es, index)))
                    ELSE stk,
          found |-> FALSE]

\* push_next_child_if_any without the pop of the frame that has no child left.
push_next_child_if_any_no_pop(ns, es, stk, next) ==
    IF next # None
    THEN push_next_child(ns, es, stk, next[1].index, next[1].symbol_sets)
    ELSE [stack |-> stk, found |-> FALSE]

\* push_next_child_if_any: `next` is None or Some((index, symbol_sets)).
push_next_child_if_any(ns, es, stk, next) ==
    IF next # None
    THEN push_next_child(ns, es, stk, next[1].index, next[1].symbol_sets)
    ELSE [stack |-> Pop(stk), found |-> FALSE]

\* top_of_stack.edges.next(): the item yielded and the stack with the top
\* frame's iterator moved on.
NextEdge(stk) ==
    LET top == stk[Len(stk)]
    IN  IF top.edges = <<>>
        THEN [next |-> None, stack |-> stk]
        ELSE [next |-> Some(Head(top.edges)),
              stack |-> [stk EXCEPT ![Len(stk)].edges = Tail(top.edges)]]

\* self.symbols_and_cursor()
symbols_and_cursor(stk, syms, cur) ==
    IF stk = <<>> THEN None ELSE Some([symbols |-> syms, cursor |-> cur])

\* A lookup that falls back on the first NodeIndex.
Lookup_or_default(idx, node) ==
    IF node \in DOMAIN idx
    THEN [panic |-> FALSE, id |-> idx[node]]
    ELSE [panic |-> FALSE, id |-> 1]

\* graph.indices[&TraceGraphNode::Item(lr0_item)]: indexing a map with an
\* absent key panics.
Lookup(idx, node) ==
    IF node \in DOMAIN idx
    THEN [panic |-> FALSE, id |-> idx[node]]
    ELSE [panic |-> TRUE, id |-> 0]

\* A public call whose advance() reports a trace whatever the search found.
Completed_always_true(c, found) ==
    [op |-> c.op, arg |-> None,
     ret |-> IF c.op = "next" THEN c.this
             ELSE IF c.op = "advance" THEN Some(TRUE)
             ELSE None]

\* What the running public call returns once the search has returned `found`.
Completed(c, found) ==
    [op |-> c.op, arg |-> None,
     ret |-> IF c.op = "next" THEN c.this
             ELSE IF c.op = "advance" THEN Some(found)
             ELSE None]

NoCall == [op |-> "none", this |-> None]

NoLast == [op |-> "none", arg |-> None, ret |-> None]

\* The frames of a stack without their iterators: the path the stack holds.
Path(stk) == [i \in 1..Len(stk) |->
                 [index |-> stk[i].index, symbol_sets |-> stk[i].symbol_sets]]

\* PathEnumerator::new without its call of find_next_trace.
EnumeratePathsFrom_no_search(item) ==
    /\ en = "none"
    /\ LET start_state == Lookup(indices, Item(item))
       IN  IF start_state.panic
           THEN /\ en' = "panicked"
                /\ last' = [op |-> "new", arg |-> None, ret |-> Some("panic")]
                /\ UNCHANGED stack
           ELSE /\ en' = "live"
                /\ stack' = <<EnumeratorState(start_state.id, EmptySymbolSets,
                                              incoming_edges(edges, start_state.id))>>
                /\ last' = [op |-> "new", arg |-> None, ret |-> None]
    /\ target' = Some(item)
    /\ UNCHANGED <<nodes, edges, indices, symbols, cursor, emitted, pc, call>>

\* TraceGraph::enumerate_paths_from / PathEnumerator::new, up to its call of
\* find_next_trace.
EnumeratePathsFrom(item) ==
    /\ en = "none"
    /\ LET start_state == Lookup(indices, Item(item))
       IN  IF start_state.panic
           THEN /\ en' = "panicked"
                /\ last' = [op |-> "new", arg |-> None, ret |-> Some("panic")]
                /\ UNCHANGED <<stack, pc, call>>
           ELSE /\ en' = "live"
                /\ stack' = <<EnumeratorState(start_state.id, EmptySymbolSets,
                                              incoming_edges(edges, start_state.id))>>
                /\ pc' = "find_next_trace"
                /\ call' = [op |-> "new", this |-> None]
                /\ last' = NoLast
    /\ target' = Some(item)
    /\ UNCHANGED <<nodes, edges, indices, symbols, cursor, emitted>>

\* One call of find_next_trace, with the push_next_child_if_any,
\* push_next_child and found_trace it makes; it ends by returning or by
\* calling find_next_trace again.
FindNextTrace ==
    /\ en = "live"
    /\ pc = "find_next_trace"
    /\ IF stack = <<>>
       THEN /\ pc' = "idle"
            /\ last' = Completed(call, FALSE)
            /\ call' = NoCall
            /\ UNCHANGED <<en, stack, symbols, cursor, emitted>>
       ELSE LET next_edge == NextEdge(stack)
                r == push_next_child_if_any(nodes, edges, next_edge.stack,
                                            next_edge.next)
                t == found_trace(r.stack)
            IN  /\ stack' = r.stack
                /\ IF ~r.found
                   THEN UNCHANGED <<en, pc, call, last, symbols, cursor, emitted>>
                   ELSE IF t.panic
                   THEN /\ en' = "panicked"
                        /\ UNCHANGED <<pc, call, last, symbols, cursor, emitted>>
                   ELSE /\ symbols' = t.symbols
                        /\ cursor' = t.cursor
                        /\ emitted' = Append(emitted,
                                             [stack |-> Path(r.stack),
                                              symbols |-> t.symbols,
                                              cursor |-> t.cursor])
                        /\ pc' = "idle"
                        /\ last' = Completed(call, TRUE)
                        /\ call' = NoCall
                        /\ UNCHANGED en
    /\ UNCHANGED <<nodes, edges, indices, target>>

\* advance() that pops the found item's frame and its parent's.
AdvanceFor_pop_two(c) ==
    /\ en = "live"
    /\ pc = "idle"
    /\ IF stack = <<>>
       THEN /\ last' = Completed(c, FALSE)
            /\ UNCHANGED <<en, stack, pc, call>>
       ELSE /\ stack' = Pop(Pop(stack))
            /\ pc' = "find_next_trace"
            /\ call' = c
            /\ last' = NoLast
            /\ UNCHANGED en
    /\ UNCHANGED <<nodes, edges, indices, symbols, cursor, target, emitted>>

\* advance() that starts over from the target once the stack is empty.
AdvanceFor_restart(c) ==
    /\ en = "live"
    /\ pc = "idle"
    /\ stack' = IF stack = <<>>
                THEN <<EnumeratorState(indices[Item(target[1])], EmptySymbolSets,
                                       incoming_edges(edges, indices[Item(target[1])]))>>
                ELSE Pop(stack)
    /\ pc' = "find_next_trace"
    /\ call' = c
    /\ last' = NoLast
    /\ UNCHANGED <<nodes, edges, indices, en, symbols, cursor, target, emitted>>

\* advance() that leaves the found item's frame on the stack.
AdvanceFor_no_pop(c) ==
    /\ en = "live"
    /\ pc = "idle"
    /\ IF stack = <<>>
       THEN /\ last' = Completed(c, FALSE)
            /\ UNCHANGED <<en, pc, call>>
       ELSE /\ pc' = "find_next_trace"
            /\ call' = c
            /\ last' = NoLast
            /\ UNCHANGED en
    /\ UNCHANGED <<nodes, edges, indices, stack, symbols, cursor, target, emitted>>

\* advance(), up to its call of find_next_trace; `c` is the public call it
\* is made for (advance itself, or next).
AdvanceFor(c) ==
    /\ en = "live"
    /\ pc = "idle"
    /\ IF stack = <<>>
       THEN /\ last' = Completed(c, FALSE)
            /\ UNCHANGED <<en, stack, pc, call>>
       ELSE /\ stack' = Pop(stack)
            /\ IF nodes[stack[Len(stack)].index].kind = "Item"
               THEN /\ pc' = "find_next_trace"
                    /\ call' = c
                    /\ last' = NoLast
                    /\ UNCHANGED en
               ELSE /\ en' = "panicked"
                    /\ UNCHANGED <<pc, call, last>>
    /\ UNCHANGED <<nodes, edges, indices, symbols, cursor, target, emitted>>

Advance == AdvanceFor([op |-> "advance", this |-> None])

\* Iterator::next with `this` read whether or not there is a current trace.
IterNext_stale ==
    AdvanceFor([op |-> "next",
                this |-> Some([symbols |-> symbols, cursor |-> cursor])])

\* Iterator::next: this = symbols_and_cursor(); advance(); this
IterNext ==
    AdvanceFor([op |-> "next", this |-> symbols_and_cursor(stack, symbols, cursor)])

SymbolsAndCursor ==
    /\ en = "live"
    /\ pc = "idle"
    /\ last' = [op |-> "symbols_and_cursor", arg |-> None,
                ret |-> symbols_and_cursor(stack, symbols, cursor)]
    /\ UNCHANGED <<nodes, edges, indices, en, stack, symbols, cursor, pc, call,
                   target, emitted>>

\* One enumerator, pulled by advance() and next() in any mix.
Single == UNCHANGED <<returned, other>>

Next ==
    \/ \E node \in NodeInputs : AddNode(node) /\ Single
    \/ \E t \in EdgeInputs : AddEdge(t[1], t[2], t[3]) /\ Single
    \/ \E item \in ItemNames : EnumeratePathsFrom(item) /\ Single
    \/ FindNextTrace /\ Single
    \/ Advance /\ Single
    \/ IterNext /\ Single
    \/ SymbolsAndCursor /\ Single

Spec == Init /\ [][Next]_vars

\* The search runs to its return once called, and the caller pulls traces
\* for as long as there is one.
LiveSpec ==
    Spec /\ WF_vars(FindNextTrace /\ Single) /\ WF_vars(Advance /\ Single)

----------------------------------------------------------------------------
(* The enumerator as an Iterator: pulled by next() only *)

\* The value a call of next() returns in this step, if one returns: the
\* call returns at once on an empty stack, and else when the search does.
Returns ==
    returned' = IF last'.op = "next" /\ pc' = "idle"
                   /\ (pc = "find_next_trace" \/ stack = <<>>)
                THEN returned \o last'.ret
                ELSE returned

NextIter ==
    \/ \E t \in EdgeInputs : AddEdge(t[1], t[2], t[3]) /\ Single
    \/ \E item \in ItemNames : EnumeratePathsFrom(item) /\ Single
    \/ FindNextTrace /\ Returns /\ UNCHANGED other
    \/ IterNext /\ Returns /\ UNCHANGED other

IterSpec == Init /\ [][NextIter]_vars

----------------------------------------------------------------------------
(* Two enumerators over the same graph *)

\* The first enumerator's variables, which a call on the second leaves alone.
Own == UNCHANGED <<nodes, edges, indices, en, stack, symbols, cursor, pc, call,
                   last, target, emitted, returned>>

\* A second enumerator whose root frame takes the incoming edges in the
\* opposite order.
OtherEnumeratePathsFrom_reversed(item) ==
    /\ en = "live"
    /\ other.en = "none"
    /\ LET start_state == Lookup(indices, Item(item))
           es == incoming_edges(edges, start_state.id)
       IN  other' = IF start_state.panic
                    THEN [other EXCEPT !.en = "panicked", !.target = Some(item)]
                    ELSE [other EXCEPT
                            !.en = "live",
                            !.stack = <<EnumeratorState(
                                          start_state.id, EmptySymbolSets,
                                          [i \in 1..Len(es) |->
                                              es[Len(es) + 1 - i]])>>,
                            !.pc = "find_next_trace",
                            !.target = Some(item)]
    /\ Own

\* enumerate_paths_from called again while the first enumerator borrows the
\* graph: PathEnumerator::new up to its call of find_next_trace.
OtherEnumeratePathsFrom(item) ==
    /\ en = "live"
    /\ other.en = "none"
    /\ LET start_state == Lookup(indices, Item(item))
       IN  other' = IF start_state.panic
                    THEN [other EXCEPT !.en = "panicked", !.target = Some(item)]
                    ELSE [other EXCEPT
                            !.en = "live",
                            !.stack = <<EnumeratorState(
                                          start_state.id, EmptySymbolSets,
                                          incoming_edges(edges, start_state.id))>>,
                            !.pc = "find_next_trace",
                            !.target = Some(item)]
    /\ Own

\* One round of the second enumerator's find_next_trace.
OtherFindNextTrace ==
    /\ other.en = "live"
    /\ other.pc = "find_next_trace"
    /\ IF other.stack = <<>>
       THEN other' = [other EXCEPT !.pc = "idle"]
       ELSE LET next_edge == NextEdge(other.stack)
                r == push_next_child_if_any(nodes, edges, next_edge.stack,
                                            next_edge.next)
                t == found_trace(r.stack)
            IN  other' =
                    IF ~r.found
                    THEN [other EXCEPT !.stack = r.stack]
                    ELSE IF t.panic
                    THEN [other EXCEPT !.stack = r.stack, !.en = "panicked"]
                    ELSE [other EXCEPT
                            !.stack = r.stack,
                            !.symbols = t.symbols,
                            !.cursor = t.cursor,
                            !.emitted = Append(other.emitted,
                                               [stack |-> Path(r.stack),
                                                symbols |-> t.symbols,
                                                cursor |-> t.cursor]),
                            !.pc = "idle"]
    /\ Own

\* The second enumerator's advance() on a stack it shares with the first.
OtherAdvance_shared_stack ==
    /\ other.en = "live"
    /\ other.pc = "idle"
    /\ pc = "idle"
    /\ other.stack # <<>>
    /\ other' = [other EXCEPT !.stack = Pop(other.stack),
                              !.pc = "find_next_trace"]
    /\ stack' = Pop(stack)
    /\ UNCHANGED <<nodes, edges, indices, en, symbols, cursor, pc, call, last,
                   target, emitted, returned>>

\* The second enumerator's advance(), up to its call of find_next_trace.
OtherAdvance ==
    /\ other.en = "live"
    /\ other.pc = "idle"
    /\ other' = IF other.stack = <<>>
                THEN other
                ELSE IF nodes[other.stack[Len(other.stack)].index].kind = "Item"
                THEN [other EXCEPT !.stack = Pop(other.stack),
                                   !.pc = "find_next_trace"]
                ELSE [other EXCEPT !.stack = Pop(other.stack),
                                   !.en = "panicked"]
    /\ Own

NextPair ==
    \/ \E t \in EdgeInputs : AddEdge(t[1], t[2], t[3]) /\ Single
    \/ \E item \in ItemNames : EnumeratePathsFrom(item) /\ Single
    \/ FindNextTrace /\ Single
    \/ Advance /\ Single
    \/ SymbolsAndCursor /\ Single
    \/ \E item \in ItemNames : OtherEnumeratePathsFrom(item)
    \/ OtherFindNextTrace
    \/ OtherAdvance

PairSpec == Init /\ [][NextPair]_vars

----------------------------------------------------------------------------
(* Paths of the graph, as sets, for the statements about the enumeration *)

EdgeSet == {edges[e] : e \in 1..Len(edges)}

IsItem(index) == nodes[index].kind = "Item"

\* The enumerator is between two public calls and its stack is empty.
Exhausted == en = "live" /\ pc = "idle" /\ stack = <<>>

\* The enumerator is between two public calls and holds a trace.
Active == en = "live" /\ pc = "idle" /\ stack # <<>>

TargetIndex == indices[Item(target[1])]

\* The node a backward path from t along the edge sequence q ends in.
EndOf(q) == q[Len(q)].source

\* The nodes a backward edge sequence visits after its first node.
SourcesOf(q) == {q[i].source : i \in 1..Len(q)}

\* The backward paths of k edges from t that visit no node twice, but for
\* a last node that may be t again.
RECURSIVE SimplePathsOfLen(_, _)
SimplePathsOfLen(t, k) ==
    IF k = 1
    THEN {<<e>> : e \in {e \in EdgeSet : e.target = t}}
    ELSE UNION { {Append(q, e) : e \in {e \in EdgeSet :
                                           /\ EndOf(q) # t
                                           /\ e.target = EndOf(q)
                                           /\ e.source \notin SourcesOf(q)}}
                 : q \in SimplePathsOfLen(t, k - 1) }

\* All simple backward paths from t to an Item node.
SimplePathsToItems(t) ==
    {q \in UNION {SimplePathsOfLen(t, k) : k \in 1..Len(nodes)} : IsItem(EndOf(q))}

\* The backward walks of k edges from t whose nodes after t are pairwise
\* distinct Nonterminal nodes.
RECURSIVE NonterminalPathsOfLen(_, _)
NonterminalPathsOfLen(t, k) ==
    IF k = 0
    THEN {<<>>}
    ELSE UNION { {Append(q, e) : e \in {e \in EdgeSet :
                                           /\ e.target = (IF q = <<>> THEN t ELSE EndOf(q))
                                           /\ ~IsItem(e.source)
                                           /\ e.source \notin SourcesOf(q)}}
                 : q \in NonterminalPathsOfLen(t, k - 1) }

\* The backward paths from t that end in an Item node (t itself or another)
\* and pass, in between, through pairwise distinct Nonterminal nodes only.
TracePaths(t) ==
    UNION { {Append(q, e) : e \in {e \in EdgeSet :
                                      /\ e.target = (IF q = <<>> THEN t ELSE EndOf(q))
                                      /\ IsItem(e.source)}}
            : q \in UNION {NonterminalPathsOfLen(t, k) : k \in 0..Len(nodes)} }

\* The edge sequence a stack stands for: frame i + 1 was reached from frame i
\* against an edge with frame i + 1's label.
EdgePath(p) ==
    [i \in 1..(Len(p) - 1) |->
        [source |-> p[i + 1].index, target |-> p[i].index,
         weight |-> p[i + 1].symbol_sets]]

EmittedPaths == {EdgePath(emitted[i].stack) : i \in 1..Len(emitted)}

NoTraceTwice ==
    \A i, j \in 1..Len(emitted) : emitted[i].stack = emitted[j].stack => i = j

----------------------------------------------------------------------------
(* C1 *)

\* C1, as stated: once the enumerator is exhausted, the traces it emitted
\* are, one for one, the simple backward paths from the target to an Item
\* (a path that comes back to the target counted as simple).
C1_AllSimplePaths ==
    Exhausted => NoTraceTwice /\ EmittedPaths = SimplePathsToItems(TargetIndex)

\* C1, amended: once the enumerator is exhausted, the traces it emitted are,
\* one for one, the backward paths from the target that end in the first
\* Item node they meet (the target included) and pass through pairwise
\* distinct Nonterminal nodes in between.
C1_AllTracePaths ==
    Exhausted => NoTraceTwice /\ EmittedPaths = TracePaths(TargetIndex)

\* An exhausted enumeration that emitted several traces, one of them through
\* two Nonterminal nodes.
C1_Witness ==
    /\ Exhausted
    /\ Len(emitted) >= 2
    /\ \E i \in 1..Len(emitted) : Len(emitted[i].stack) >= 4

----------------------------------------------------------------------------
(* C2 *)

NonterminalOnce(stk) ==
    \A i, j \in 1..Len(stk) :
        (stk[i].index = stk[j].index /\ ~IsItem(stk[i].index)) => i = j

\* C2: in every state of an enumerator, the steps inside a search included,
\* no Nonterminal node identifier is in more than one frame of the stack.
C2_SimplePath == en = "live" => NonterminalOnce(stack)

\* The search is on a Nonterminal frame all of whose incoming edges it has
\* taken, one of them from a Nonterminal that is on the stack.
C2_Witness ==
    /\ en = "live"
    /\ pc = "find_next_trace"
    /\ Len(stack) >= 3
    /\ LET top == stack[Len(stack)]
       IN  /\ ~IsItem(top.index)
           /\ top.edges = <<>>
           /\ \E e \in EdgeSet : /\ e.target = top.index
                                  /\ ~IsItem(e.source)
                                  /\ OnStack(stack, e.source)

----------------------------------------------------------------------------
(* C3 *)

\* Two Nonterminal nodes of the graph are on a cycle with each other.
HasNonterminalCycle ==
    \E e, f \in EdgeSet :
        /\ e.source = f.target /\ e.target = f.source
        /\ ~IsItem(e.source) /\ ~IsItem(e.target)

\* C3: every search that is started returns, an enumerator whose caller
\* keeps advancing reaches the exhausted state, and no trace emitted on the
\* way has a Nonterminal in two of its frames.
C3_Termination ==
    /\ (pc = "find_next_trace") ~> (pc = "idle")
    /\ (en = "live") ~> Exhausted
    /\ [](en = "live" => \A i \in 1..Len(emitted) : NonterminalOnce(emitted[i].stack))

\* An exhausted enumeration that emitted a trace through one of the
\* Nonterminal nodes of a cycle.
C3_Witness ==
    /\ Exhausted
    /\ HasNonterminalCycle
    /\ emitted # <<>>

----------------------------------------------------------------------------
(* C4 *)

\* C4: from a state in which symbols_and_cursor() returns None, every step
\* leads to a state in which it returns None: the stack stays empty and no
\* search is started.
C4_TerminalExhaustion ==
    [][Exhausted => /\ Exhausted'
                    /\ symbols_and_cursor(stack', symbols', cursor') = None
                    /\ (last'.op = "symbols_and_cursor" => last'.ret = None)
                    /\ (last'.op = "advance" => last'.ret = Some(FALSE))
                    /\ (last'.op = "next" => last'.ret = None)]_vars

\* symbols_and_cursor() has returned None on an enumerator that had emitted
\* traces before.
C4_Witness ==
    /\ Exhausted
    /\ emitted # <<>>
    /\ last.op = "symbols_and_cursor"
    /\ last.ret = None

----------------------------------------------------------------------------
(* C5 *)

\* The edge of the graph that add_edge(from, to, labels) stands for, given
\* the index map; no edge when an endpoint is unknown.
EdgesFor(idx, es, from, to, labels) ==
    IF from \in DOMAIN idx /\ to \in DOMAIN idx
    THEN {e \in 1..Len(es) : es[e] = [source |-> idx[from], target |-> idx[to],
                                      weight |-> labels]}
    ELSE {}

\* C5: the graph never holds two edges with the same (source, destination,
\* label); an add_edge whose triple the graph holds leaves the edges as they
\* are, and any other add_edge, one with known endpoints and a new label
\* included, appends exactly its edge.
C5_EdgeDedup ==
    [][(en' = "none" /\ last'.op = "add_edge") =>
        LET t == last'.arg[1]
        IN  /\ \A e, f \in 1..Len(edges') : edges'[e] = edges'[f] => e = f
            /\ Cardinality(EdgesFor(indices', edges', t[1], t[2], t[3])) = 1
            /\ IF EdgesFor(indices, edges, t[1], t[2], t[3]) # {}
               THEN edges' = edges
               ELSE edges' = Append(edges, [source |-> indices'[t[1]],
                                            target |-> indices'[t[2]],
                                            weight |-> t[3]])]_vars

\* An add_edge that found its triple in a graph holding two edges with the
\* same endpoints and different labels.
C5_Witness ==
    /\ en = "none"
    /\ last.op = "add_edge"
    /\ edges # <<>>
    /\ LET t == last.arg[1]
       IN  EdgesFor(indices, edges, t[1], t[2], t[3]) # {Len(edges)}
    /\ \E e, f \in 1..Len(edges) :
          /\ edges[e].source = edges[f].source
          /\ edges[e].target = edges[f].target
          /\ edges[e].weight # edges[f].weight

----------------------------------------------------------------------------
(* C6 *)

\* The index map and the node table are one-to-one.
IndicesMatchNodes(ns, idx) ==
    /\ \A v \in DOMAIN idx : idx[v] \in 1..Len(ns) /\ ns[idx[v]] = v
    /\ \A i \in 1..Len(ns) : ns[i] \in DOMAIN idx /\ idx[ns[i]] = i

\* C6: after every call the index map and the node table are one-to-one;
\* add_node of a known value returns its identifier and leaves the graph as
\* it is, add_node of a new value adds one node and returns its identifier.
C6_AddNode ==
    [][en' = "none" =>
        /\ IndicesMatchNodes(nodes', indices')
        /\ \A v \in DOMAIN indices : v \in DOMAIN indices' /\ indices'[v] = indices[v]
        /\ last'.op = "add_node" =>
              LET node == last'.arg[1]
                  id == last'.ret[1]
              IN  /\ node \in DOMAIN indices' /\ indices'[node] = id
                  /\ IF node \in DOMAIN indices
                     THEN id = indices[node] /\ nodes' = nodes /\ indices' = indices
                     ELSE nodes' = Append(nodes, node)]_vars

\* An add_node of a value the graph, with other nodes in it, already knew.
C6_Witness ==
    /\ en = "none"
    /\ last.op = "add_node"
    /\ last.ret[1] < Len(nodes)

----------------------------------------------------------------------------
(* C7 *)

\* The sum of the lengths of the prefix sequences of a stack's labels.
RECURSIVE PrefixLenSum(_)
PrefixLenSum(stk) ==
    IF stk = <<>> THEN 0 ELSE Len(Head(stk).symbol_sets.prefix) + PrefixLenSum(Tail(stk))

CursorInBounds(syms, cur, stk) ==
    0 <= cur /\ cur <= Len(syms) /\ cur = PrefixLenSum(stk)

\* C7: the cursor of every assembled trace, and of every trace that
\* symbols_and_cursor() returns, is between 0 and the number of symbols and
\* is the sum of the lengths of the prefixes of the labels on the stack the
\* trace was assembled from.
C7_CursorBound ==
    en = "live" =>
        /\ \A i \in 1..Len(emitted) :
              CursorInBounds(emitted[i].symbols, emitted[i].cursor, emitted[i].stack)
        /\ LET r == symbols_and_cursor(stack, symbols, cursor)
           IN  (pc = "idle" /\ r # None) =>
                   CursorInBounds(r[1].symbols, r[1].cursor, stack)

\* A current trace whose cursor counts the prefixes of two frames and is
\* followed by more symbols.
C7_Witness ==
    /\ Active
    /\ cursor >= 2
    /\ cursor < Len(symbols)
    /\ last.op = "symbols_and_cursor"

----------------------------------------------------------------------------
(* C8 *)

\* The edges of the graph, by the values of their endpoints.
EdgeTriples == {<<nodes[e.source], nodes[e.target], e.weight>> : e \in EdgeSet}

\* The (symbols, cursor offset) results of the traces emitted, in order.
Results ==
    [i \in 1..Len(emitted) |->
        [symbols |-> emitted[i].symbols, cursor |-> emitted[i].cursor]]

ScenarioA == EdgeTriples = {<<X, N1, LA>>, <<N1, Y, L0>>}

ScenarioAReversed == EdgeTriples = {<<N1, X, LA>>, <<Y, N1, L0>>}

\* C8, as stated: in the graph X -([a], N1, [b])-> N1 -([], none, [])-> Y the
\* enumeration from X yields the one trace [a, N1, b] with cursor 1.
C8_ScenarioA_AsStated ==
    (ScenarioA /\ Exhausted /\ target = Some("X")) =>
        Results = <<[symbols |-> <<"a", "N1", "b">>, cursor |-> 1]>>

\* C8, amended: in that graph the enumeration from X yields no trace (X has
\* no incoming edge) and the enumeration from Y yields the one trace [a, b]
\* with cursor 1; the one trace [a, N1, b] with cursor 1 is what the
\* enumeration from X yields in the graph with both edges turned around,
\* Y -([], none, [])-> N1 -([a], N1, [b])-> X.
C8_ScenarioA_Backward ==
    /\ (ScenarioA /\ Exhausted /\ target = Some("X")) => Results = <<>>
    /\ (ScenarioA /\ Exhausted /\ target = Some("Y")) =>
          Results = <<[symbols |-> <<"a", "b">>, cursor |-> 1]>>
    /\ (ScenarioAReversed /\ Exhausted /\ target = Some("X")) =>
          Results = <<[symbols |-> <<"a", "N1", "b">>, cursor |-> 1]>>

\* The enumeration from X in the graph with the edges turned around is
\* exhausted after its one trace.
C8_Witness ==
    /\ ScenarioAReversed
    /\ Exhausted
    /\ target = Some("X")
    /\ Len(emitted) = 1

----------------------------------------------------------------------------
(* C9 *)

EdgesIntoNode(n) == {e \in EdgeSet : e.target = n}

\* C9, as stated: when two edges with different labels lead into a
\* Nonterminal that has an edge to the target item, the enumeration yields
\* exactly two traces and their (symbols, cursor offset) results differ.
C9_ScenarioB_AsStated ==
    \A n \in 1..Len(nodes) :
        ( /\ Exhausted
          /\ ~IsItem(n)
          /\ \E e, f \in EdgesIntoNode(n) : e.weight # f.weight
          /\ \E e \in EdgesIntoNode(TargetIndex) : e.source = n )
        => (Len(emitted) = 2 /\ Results[1] # Results[2])

\* The case of C9 in which the two edges are all there is to enumerate: the
\* target's one incoming edge comes from the Nonterminal n, and n's incoming
\* edges are two edges, with different labels, from Item nodes.
ScenarioB(n) ==
    /\ ~IsItem(n)
    /\ Cardinality(EdgesIntoNode(TargetIndex)) = 1
    /\ \A e \in EdgesIntoNode(TargetIndex) : e.source = n
    /\ Cardinality(EdgesIntoNode(n)) = 2
    /\ \A e \in EdgesIntoNode(n) : IsItem(e.source)
    /\ \A e, f \in EdgesIntoNode(n) : e # f => e.weight # f.weight

\* The two labels into n differ in prefix or suffix, not in cursor alone.
DifferBeyondCursor(n) ==
    \A e, f \in EdgesIntoNode(n) :
        e # f => <<e.weight.prefix, e.weight.suffix>> # <<f.weight.prefix, f.weight.suffix>>

\* C9, amended: in that case the enumeration yields exactly two traces, one
\* per label, and their (symbols, cursor offset) results differ exactly when
\* the two labels differ in prefix or suffix: the cursor of the label of a
\* frame other than the second is not part of the result.
C9_ScenarioB_TwoTraces ==
    \A n \in 1..Len(nodes) :
        (Exhausted /\ ScenarioB(n)) =>
            /\ Len(emitted) = 2
            /\ {emitted[i].stack[3].symbol_sets : i \in 1..2}
                 = {e.weight : e \in EdgesIntoNode(n)}
            /\ (Results[1] # Results[2]) <=> DifferBeyondCursor(n)

\* An exhausted enumeration in that case, the labels differing in prefix
\* and suffix.
C9_Witness ==
    /\ Exhausted
    /\ \E n \in 1..Len(nodes) : ScenarioB(n) /\ DifferBeyondCursor(n)
    /\ Len(emitted) = 2

----------------------------------------------------------------------------
(* C10 *)

\* C10: enumerate_paths_from for an item that is not in the graph panics:
\* there is no enumerator afterwards, and an enumerator that exists was made
\* for an item of the graph.
C10_AbsentTarget ==
    (target # None /\ Item(target[1]) \notin DOMAIN indices) =>
        /\ en = "panicked"
        /\ last.op = "new" /\ last.ret = Some("panic")
        /\ stack = <<>>
        /\ pc = "idle"

\* enumerate_paths_from has panicked on a graph that has edges.
C10_Witness ==
    /\ en = "panicked"
    /\ target # None
    /\ Item(target[1]) \notin DOMAIN indices
    /\ edges # <<>>

----------------------------------------------------------------------------
(* C11 *)

\* The nodes from which an edge leads into a node of S.
SourcesInto(S) == {e.source : e \in {e \in EdgeSet : e.target \in S}}

\* The nodes reachable from S by backward paths of at most k edges.
RECURSIVE ReachBackward(_, _)
ReachBackward(S, k) ==
    IF k = 0 THEN S ELSE ReachBackward(S \cup SourcesInto(S), k - 1)

\* The nodes reachable from t by a backward path of at least one edge.
BackwardReachable(t) == ReachBackward(SourcesInto({t}), Len(nodes))

TargetPresent == target # None /\ Item(target[1]) \in DOMAIN indices

\* C11: for a target that is in the graph and from which no Item node is
\* reachable backward, enumerate_paths_from does not panic, and the
\* enumerator it returns is exhausted from its first state on:
\* symbols_and_cursor() is None, advance() returns false, nothing was emitted.
C11_PresentNoTraces ==
    (TargetPresent /\ \A n \in BackwardReachable(TargetIndex) : ~IsItem(n)) =>
        /\ en = "live"
        /\ emitted = <<>>
        /\ pc = "idle" =>
              /\ stack = <<>>
              /\ symbols_and_cursor(stack, symbols, cursor) = None
              /\ (last.op = "symbols_and_cursor" => last.ret = None)
              /\ (last.op = "advance" => last.ret = Some(FALSE))
              /\ (last.op = "next" => last.ret = None)

\* advance() has returned false on an enumerator whose target has incoming
\* edges that lead into a cycle of Nonterminals only.
C11_Witness ==
    /\ Exhausted
    /\ emitted = <<>>
    /\ HasNonterminalCycle
    /\ BackwardReachable(TargetIndex) # {}
    /\ last.op = "advance"
    /\ last.ret = Some(FALSE)

----------------------------------------------------------------------------
(* C14 *)

\* The trace most recently emitted is the one assembled from the stack as it
\* is now, and it is the one symbols_and_cursor() returns.
FreshlyAssembled ==
    /\ emitted # <<>>
    /\ emitted[Len(emitted)] =
          [stack |-> Path(stack), symbols |-> symbols, cursor |-> cursor]
    /\ symbols_and_cursor(stack, symbols, cursor) =
          Some([symbols |-> found_trace(stack).symbols,
                cursor |-> found_trace(stack).cursor])

\* C14: when advance() has returned, it returned true exactly if
\* symbols_and_cursor() now returns Some (the trace just assembled from the
\* stack), and false exactly if the enumerator is now exhausted; advance()
\* on an exhausted enumerator returns false and changes nothing of the
\* enumerator or the graph.
C14_AdvanceAgrees ==
    /\ [](en = "live" /\ pc = "idle" /\ last.op = "advance" =>
            /\ last.ret \in {Some(TRUE), Some(FALSE)}
            /\ last.ret = Some(TRUE) <=>
                  symbols_and_cursor(stack, symbols, cursor) # None
            /\ last.ret = Some(TRUE) => FreshlyAssembled
            /\ last.ret = Some(FALSE) <=> Exhausted)
    /\ [][(Exhausted /\ last'.op = "advance") =>
            /\ last'.ret = Some(FALSE)
            /\ UNCHANGED <<nodes, edges, indices, en, stack, symbols, cursor,
                           pc, call, target, emitted>>]_vars

\* advance() has returned true for the second trace or a later one.
C14_Witness ==
    /\ Active
    /\ last.op = "advance"
    /\ last.ret = Some(TRUE)
    /\ Len(emitted) >= 2

----------------------------------------------------------------------------
(* C16 *)

RECURSIVE Concat(_)
Concat(seqs) == IF seqs = <<>> THEN <<>> ELSE Head(seqs) \o Concat(Tail(seqs))

\* The prefixes of a path's labels from frame 0, the target, to the top frame.
PrefixesFromTarget(p) == Concat([i \in 1..Len(p) |-> p[i].symbol_sets.prefix])

\* The prefixes of a path's labels from the top frame, the start item found,
\* down to frame 0.
PrefixesFromStartItem(p) ==
    Concat([i \in 1..Len(p) |-> p[Len(p) + 1 - i].symbol_sets.prefix])

PrefixBlockOf(t) == SubSeq(t.symbols, 1, t.cursor)

\* C16 as stated: the first `cursor` symbols of every emitted trace are the
\* prefixes of the frames' labels taken from the frame closest to the target
\* toward the start item found.
C16_PrefixBlock_AsStated ==
    \A i \in 1..Len(emitted) :
        PrefixBlockOf(emitted[i]) = PrefixesFromTarget(emitted[i].stack)

\* C16: the first `cursor` symbols of every emitted trace are the prefixes of
\* the frames' labels taken from the top frame, the start item found, down
\* to frame 0, the target.
C16_PrefixBlock_TopDown ==
    \A i \in 1..Len(emitted) :
        PrefixBlockOf(emitted[i]) = PrefixesFromStartItem(emitted[i].stack)

\* A trace has been emitted for which the two orders differ.
C16_Witness ==
    \E i \in 1..Len(emitted) :
        /\ PrefixesFromTarget(emitted[i].stack) # PrefixesFromStartItem(emitted[i].stack)
        /\ emitted[i].cursor = 2

----------------------------------------------------------------------------
(* C17 *)

\* The suffixes of a path's labels from frame 0 to the top frame.
SuffixesBottomUp(p) == Concat([i \in 1..Len(p) |-> p[i].symbol_sets.suffix])

AfterPrefixBlock(t) == SubSeq(t.symbols, t.cursor + 1, Len(t.symbols))

\* C17: in every emitted trace the symbols after the prefix block are the
\* cursor symbol of the label of the frame at stack position 1, if it has
\* one, followed by the suffixes of all frames' labels from the bottom of the
\* stack to the top, and nothing else.
C17_CursorAndSuffix ==
    \A i \in 1..Len(emitted) :
        LET t == emitted[i]
        IN  /\ Len(t.stack) >= 2
            /\ t.cursor <= Len(t.symbols)
            /\ AfterPrefixBlock(t) =
                  t.stack[2].symbol_sets.cursor \o SuffixesBottomUp(t.stack)

\* A trace has been emitted in which the label at position 1 has no cursor
\* symbol while the label of a frame above it has one.
C17_Witness ==
    \E i \in 1..Len(emitted) :
        LET t == emitted[i]
        IN  /\ t.stack[2].symbol_sets.cursor = None
            /\ \E j \in 3..Len(t.stack) : t.stack[j].symbol_sets.cursor # None
            /\ SuffixesBottomUp(t.stack) # <<>>

----------------------------------------------------------------------------
(* C18 *)

\* C18: whenever advance() can be entered with a non-empty stack, the top
\* frame is an Item node; the only panic is that of a target that is not in
\* the graph.
C18_AssertionHolds ==
    /\ (en = "live" /\ pc = "idle" /\ stack # <<>>) => IsItem(stack[Len(stack)].index)
    /\ en = "panicked" => ~TargetPresent

\* advance() has been entered and has returned on a graph with an edge from
\* an Item to an Item, after a trace that starts in the target itself.
C18_Witness ==
    /\ Active
    /\ last.op \in {"advance", "next"}
    /\ \E e \in EdgeSet : IsItem(e.source) /\ IsItem(e.target)
    /\ \E i \in 1..Len(emitted) :
          emitted[i].stack[Len(emitted[i].stack)].index = TargetIndex

----------------------------------------------------------------------------
(* C19 *)

\* Frame 0 is the target with the empty label, the top frame is an Item and
\* the frames between them are Nonterminals.
TraceShape(p) ==
    /\ Len(p) >= 2
    /\ p[1].index = TargetIndex
    /\ p[1].symbol_sets = EmptySymbolSets
    /\ IsItem(p[Len(p)].index)
    /\ \A i \in 2..(Len(p) - 1) : ~IsItem(p[i].index)

\* C19: every stack found_trace ran on, and the stack of every Active
\* enumerator, has the shape of a trace; an Item frame above frame 0 is the
\* top of the stack of an enumerator at rest, and none of its incoming
\* edges has been taken.
C19_StackShape ==
    en = "live" =>
        /\ \A i \in 1..Len(emitted) : TraceShape(emitted[i].stack)
        /\ (pc = "idle" /\ stack # <<>>) => TraceShape(Path(stack))
        /\ \A i \in 2..Len(stack) :
              IsItem(stack[i].index) =>
                  /\ pc = "idle"
                  /\ i = Len(stack)
                  /\ stack[i].edges = incoming_edges(edges, stack[i].index)

\* A current trace of three frames or more whose start item has incoming
\* edges of its own, after an advance().
C19_Witness ==
    /\ Active
    /\ Len(stack) >= 3
    /\ stack[Len(stack)].edges # <<>>
    /\ last.op = "advance"

----------------------------------------------------------------------------
(* C15 *)

\* The traces found so far that are not the current trace.
Passed == IF stack = <<>> THEN Results ELSE SubSeq(Results, 1, Len(Results) - 1)

\* C15: under next() calls only, between calls the values returned so far
\* are the traces found, in the order found and once each, up to but not
\* including the current trace; during a call the value it will return is
\* the trace that was current when it was made; and next() on an exhausted
\* enumerator returns None and changes nothing.
C15_IteratorProtocol ==
    /\ [](en = "live" =>
            /\ pc = "idle" => returned = Passed
            /\ (pc = "find_next_trace" /\ call.op = "next") =>
                  /\ call.this # None
                  /\ returned \o call.this = Results)
    /\ [][(Exhausted /\ last'.op = "next") =>
            /\ last'.ret = None
            /\ UNCHANGED <<nodes, edges, indices, en, stack, symbols, cursor,
                           pc, call, target, emitted, returned>>]_vars

\* next() has returned the two traces found and then None.
C15_Witness ==
    /\ Exhausted
    /\ Len(returned) = 2
    /\ returned[1] # returned[2]
    /\ returned = Results
    /\ last.op = "next"
    /\ last.ret = None

----------------------------------------------------------------------------
(* C12 *)

\* The (symbols, cursor offset) results of the second enumerator's traces.
OtherResults ==
    [i \in 1..Len(other.emitted) |->
        [symbols |-> other.emitted[i].symbols, cursor |-> other.emitted[i].cursor]]

OtherExhausted == other.en = "live" /\ other.pc = "idle" /\ other.stack = <<>>

IsPrefix(a, b) == Len(a) <= Len(b) /\ SubSeq(b, 1, Len(a)) = a

----------------------------------------------------------------------------
(* C13 *)

\* find_next_trace run to its return on a stack: the stack it leaves and
\* what it returns.
RECURSIVE Search(_)
Search(stk) ==
    IF stk = <<>>
    THEN [stack |-> <<>>, found |-> FALSE]
    ELSE LET next_edge == NextEdge(stk)
             r == push_next_child_if_any(nodes, edges, next_edge.stack,
                                         next_edge.next)
         IN  IF r.found THEN r ELSE Search(r.stack)

\* The results of an enumerator pulled to exhaustion from where a search
\* has left it, after the results `acc`.
RECURSIVE Drain(_, _)
Drain(s, acc) ==
    IF ~s.found
    THEN acc
    ELSE Drain(Search(Pop(s.stack)),
               Append(acc, [symbols |-> found_trace(s.stack).symbols,
                            cursor |-> found_trace(s.stack).cursor]))

\* The results of an enumerator of `item` that runs alone over the graph.
RunAlone(item) ==
    Drain(Search(<<EnumeratorState(indices[Item(item)], EmptySymbolSets,
                                   incoming_edges(edges, indices[Item(item)]))>>),
          <<>>)

\* C13: with two enumerators over one graph and their calls interleaved in
\* any order, the results each has produced are the first ones of the
\* sequence it produces when run alone, and all of that sequence once it is
\* exhausted; neither panics if its target is in the graph; and once an
\* enumerator exists no step changes the graph's nodes, edges or index map.
C13_Independence ==
    /\ [](/\ en = "live" =>
              /\ IsPrefix(Results, RunAlone(target[1]))
              /\ Exhausted => Results = RunAlone(target[1])
          /\ other.en = "live" =>
              /\ IsPrefix(OtherResults, RunAlone(other.target[1]))
              /\ OtherExhausted => OtherResults = RunAlone(other.target[1])
          /\ en = "panicked" => Item(target[1]) \notin DOMAIN indices
          /\ other.en = "panicked" => Item(other.target[1]) \notin DOMAIN indices)
    /\ [][en' # "none" => UNCHANGED <<nodes, edges, indices>>]_vars

\* The second enumerator, created after the first and for another item, has
\* been pulled to exhaustion while the first is still at the first of its
\* two traces.
C13_Witness ==
    /\ Active
    /\ Len(emitted) = 1
    /\ Len(RunAlone(target[1])) = 2
    /\ OtherExhausted
    /\ other.target # target
    /\ Len(OtherResults) >= 1
    /\ last.op = "symbols_and_cursor"

====
